---- MODULE Spec2Model ----
(***************************************************************************)
(* Model of the logistics analytics dashboard (config.py, utils.py,        *)
(* app.py): the dataset loader, the inventory metrics, the demand/stock    *)
(* outer join, the rebalancing suggestions and the surplus lookup.         *)
(*                                                                         *)
(* app.py uses calculate_inventory_metrics, generate_rebalancing_          *)
(* suggestions and get_surplus_warehouses without defining them: they are  *)
(* the functions of utils.py.  main's load_data() is modelled as the       *)
(* loader of utils.py, the only definition in the repository that reads    *)
(* DATA_FILES (app.py's own load_data, lines 14-44, reads no file).        *)
(*                                                                         *)
(* Tables are sequences of records.  Input rows are typed as in the data   *)
(* model: categories and locations are strings, stock and reorder levels   *)
(* are non-negative integers.                                              *)
(***************************************************************************)
EXTENDS Integers, Sequences, FiniteSets, TLC

VARIABLES
    files,          \* dataset name -> state of its CSV file on disk
    orders_csv,     \* rows of data/orders.csv
    warehouse_csv,  \* rows of data/warehouse_inventory.csv
    data,           \* what the last load_data() returned
    loads,          \* number of load_data() calls made in the session
    view,           \* what the last run of the page rendered
    call            \* the last direct call of a query function and its result

vars == <<files, orders_csv, warehouse_csv, data, loads, view, call>>

----------------------------------------------------------------------------
(* config.py *)

DATA_FILES ==
    << "orders", "warehouse_inventory", "delivery_performance",
       "routes_distance", "vehicle_fleet", "customer_feedback",
       "cost_breakdown" >>

Datasets == {DATA_FILES[i] : i \in DOMAIN DATA_FILES}

REBALANCE_THRESHOLD == 5

\* SURPLUS_THRESHOLD = 1.5, kept exact in tenths: s > r * 1.5  <=>  10 s > 15 r
SURPLUS_THRESHOLD_X10 == 15

----------------------------------------------------------------------------
(* Bounds and input domains *)

MaxOrders == 7
MaxRows == 2
MaxRequests == 2

\* Categories in lexicographic order (the order groupby and merge sort keys in)
SortedCategories == << "Books", "Electronics" >>
Categories == {SortedCategories[i] : i \in DOMAIN SortedCategories}
Locations == {"W1", "W2"}
FileStates == {"missing", "ok", "unreadable"}

SeqsUpTo(S, n) == UNION {[1..k -> S] : k \in 0..n}

OrderRows == [product_category : Categories]

WarehouseRows(locs, stocks, reorders) ==
    [product_category : Categories, location : locs,
     current_stock_units : stocks, reorder_level : reorders]

\* Rows of the direct calls: low stock, stock = reorder level, stock = 1.5 x
\* reorder level (3 = 2 x 1.5) and surplus all occur.
QueryRows == WarehouseRows(Locations, {0, 2, 3, 4}, {0, 2})

\* Rows of the analysis: with up to MaxOrders orders, variances of -6, -5, 5
\* and 6 and understocked categories with and without a donor all occur.
AnalysisRows == WarehouseRows({"W1"}, {1, 6}, {0, 4})

\* The tables of the session runs: empty files, and an understocked category
\* with one donor warehouse.
SessionOrders ==
    {<< >>, [i \in 1..MaxOrders |-> [product_category |-> "Electronics"]]}

SessionWarehouses ==
    {<< >>,
     << [product_category |-> "Electronics", location |-> "W1",
         current_stock_units |-> 1, reorder_level |-> 0] >>}

----------------------------------------------------------------------------
(* utils.py: load_data *)

None == [is_none |-> TRUE, tables |-> [n \in {} |-> << >>]]

Loaded(names, orders, warehouse) ==
    [is_none |-> FALSE,
     tables |-> [n \in names |->
                    IF n = "orders" THEN orders
                    ELSE IF n = "warehouse_inventory" THEN warehouse
                    ELSE << >>]]

\* The loop over DATA_FILES from entry i on, with the names read so far:
\* a missing file is skipped, a read that raises leaves the loop through the
\* except clause (None), an empty dict at the end is returned as None.
RECURSIVE load_loop(_, _, _)
load_loop(fs, i, names) ==
    IF i > Len(DATA_FILES)
    THEN [failed |-> FALSE, names |-> names]
    ELSE IF fs[DATA_FILES[i]] = "missing"
    THEN load_loop(fs, i + 1, names)
    ELSE IF fs[DATA_FILES[i]] = "unreadable"
    THEN [failed |-> TRUE, names |-> {}]
    ELSE load_loop(fs, i + 1, names \cup {DATA_FILES[i]})

\* Mutant of load_data: a missing file fails the whole load instead of
\* being skipped.
load_data_AnyMissingFails(fs, orders, warehouse) ==
    IF \E n \in Datasets : fs[n] # "ok"
    THEN None
    ELSE Loaded(Datasets, orders, warehouse)

load_data(fs, orders, warehouse) ==
    LET r == load_loop(fs, 1, {})
    IN  IF r.failed \/ r.names = {}
        THEN None
        ELSE Loaded(r.names, orders, warehouse)

----------------------------------------------------------------------------
(* pandas primitives used by the analysis *)

Abs(x) == IF x < 0 THEN -x ELSE x

\* Series.sum() of a column
RECURSIVE SumColumn(_, _)
SumColumn(df, col) ==
    IF Len(df) = 0 THEN 0 ELSE df[1][col] + SumColumn(Tail(df), col)

\* len(Series.unique())
NUnique(df, col) == Cardinality({df[i][col] : i \in DOMAIN df})

\* The sorted group keys of groupby('product_category')
GroupKeys(df) ==
    SelectSeq(SortedCategories,
              LAMBDA c : \E i \in DOMAIN df : df[i].product_category = c)

Group(df, c) == SelectSeq(df, LAMBDA r : r.product_category = c)

\* orders_df.groupby('product_category').size().reset_index(name='demand')
GroupSize(orders_df) ==
    LET keys == GroupKeys(orders_df)
    IN  [k \in DOMAIN keys |->
            [product_category |-> keys[k],
             demand |-> Len(Group(orders_df, keys[k]))]]

\* warehouse_df.groupby('product_category')['current_stock_units'].sum()
\*     .reset_index()
GroupSum(warehouse_df) ==
    LET keys == GroupKeys(warehouse_df)
    IN  [k \in DOMAIN keys |->
            [product_category |-> keys[k],
             current_stock_units |->
                 SumColumn(Group(warehouse_df, keys[k]),
                           "current_stock_units")]]

\* A cell of a merged row: << v >>, or << >> for NaN
Cell(df, c, col) ==
    LET hit == Group(df, c)
    IN  IF Len(hit) = 0 THEN << >> ELSE << hit[1][col] >>

\* Mutant of MergeKeys: an inner join, which drops one-sided categories.
MergeKeys_Inner(demand, inventory) ==
    SelectSeq(SortedCategories,
              LAMBDA c : Len(Group(demand, c)) > 0
                         /\ Len(Group(inventory, c)) > 0)

\* The keys of pd.merge(..., how='outer'): the sorted union of both sides
MergeKeys(demand, inventory) ==
    SelectSeq(SortedCategories,
              LAMBDA c : Len(Group(demand, c)) > 0
                         \/ Len(Group(inventory, c)) > 0)

\* pd.merge(demand, inventory, on='product_category', how='outer')
Merge(demand, inventory) ==
    LET keys == MergeKeys(demand, inventory)
    IN  [k \in DOMAIN keys |->
            [product_category |-> keys[k],
             demand |-> Cell(demand, keys[k], "demand"),
             current_stock_units |->
                 Cell(inventory, keys[k], "current_stock_units")]]

\* .fillna(0)
FillNa(cell) == IF Len(cell) = 0 THEN 0 ELSE cell[1]

\* app.py 118-125: the Inventory Status table
InventoryStatus(orders_df, warehouse_df) ==
    LET merged == Merge(GroupSize(orders_df), GroupSum(warehouse_df))
    IN  [k \in DOMAIN merged |->
            LET d == FillNa(merged[k].demand)
                s == FillNa(merged[k].current_stock_units)
            IN  [product_category |-> merged[k].product_category,
                 demand |-> d,
                 current_stock_units |-> s,
                 variance |-> s - d]]

----------------------------------------------------------------------------
(* utils.py: the three query functions *)

EmptyMetrics == [n \in {} |-> 0]

\* Mutant of LowStock: a row at its reorder level counts as low.
LowStock_AtMost(row) == row.current_stock_units <= row.reorder_level

LowStock(row) == row.current_stock_units < row.reorder_level

calculate_inventory_metrics(warehouse_df) ==
    IF Len(warehouse_df) = 0
    THEN EmptyMetrics
    ELSE [total_products |-> NUnique(warehouse_df, "product_category"),
          total_warehouses |-> NUnique(warehouse_df, "location"),
          total_inventory |-> SumColumn(warehouse_df, "current_stock_units"),
          \* the mean, as the pair << sum, count >>
          avg_stock_level |->
              << SumColumn(warehouse_df, "current_stock_units"),
                 Len(warehouse_df) >>,
          low_stock_items |-> Len(SelectSeq(warehouse_df, LowStock))]

\* Mutant of ExceedsThreshold: the comparison is not strict.
ExceedsThreshold_AtLeast(row) == Abs(row.variance) >= REBALANCE_THRESHOLD

ExceedsThreshold(row) == Abs(row.variance) > REBALANCE_THRESHOLD

\* Mutant of ActionOf: the sign test is reversed.
ActionOf_Flipped(x) == IF x > 0 THEN "Increase Stock" ELSE "Reduce Stock"

ActionOf(x) == IF x < 0 THEN "Increase Stock" ELSE "Reduce Stock"

generate_rebalancing_suggestions(inventory_status) ==
    LET rebalance == SelectSeq(inventory_status, ExceedsThreshold)
    IN  [k \in DOMAIN rebalance |->
            [product_category |-> rebalance[k].product_category,
             demand |-> rebalance[k].demand,
             current_stock_units |-> rebalance[k].current_stock_units,
             variance |-> rebalance[k].variance,
             action |-> ActionOf(rebalance[k].variance),
             quantity |-> Abs(rebalance[k].variance)]]

\* Mutant of IsSurplus: the comparison is not strict.
IsSurplus_AtLeast(row) ==
    row.current_stock_units * 10 >= row.reorder_level * SURPLUS_THRESHOLD_X10

IsSurplus(row) ==
    row.current_stock_units * 10 > row.reorder_level * SURPLUS_THRESHOLD_X10

get_surplus_warehouses(warehouse_df, category) ==
    SelectSeq(warehouse_df,
              LAMBDA row : row.product_category = category /\ IsSurplus(row))

----------------------------------------------------------------------------
(* app.py: optimize_warehouse_inventory and main *)

\* Mutant of Available: the raw stock figure.
Available_RawStock(wh) == wh.current_stock_units

\* app.py 160: the units a donor warehouse can provide
Available(wh) == wh.current_stock_units - wh.reorder_level

\* app.py 156-163: the source warehouses listed for one category
SourceWarehouses(warehouse_df, category) ==
    LET surplus_warehouses == get_surplus_warehouses(warehouse_df, category)
    IN  [rows |-> surplus_warehouses,
         lines |-> [i \in DOMAIN surplus_warehouses |->
                       [location |-> surplus_warehouses[i].location,
                        available |-> Available(surplus_warehouses[i])]],
         procurement_warning |-> Len(surplus_warehouses) = 0]

\* Mutant of NeedsSources: every row looks for source warehouses.
NeedsSources_Always(row) == row.action \in {"Increase Stock", "Reduce Stock"}

\* app.py 154: only an 'Increase Stock' row looks for source warehouses
NeedsSources(row) == row.action = "Increase Stock"

\* app.py 146-165: one entry of the rebalancing plan
PlanEntry(warehouse_df, row) ==
    LET src == SourceWarehouses(warehouse_df, row.product_category)
    IN  [category |-> row.product_category,
         action |-> row.action,
         quantity |-> row.quantity,
         searched |-> NeedsSources(row),
         sources |-> IF NeedsSources(row) THEN src.lines ELSE << >>,
         procurement_warning |->
             NeedsSources(row) /\ src.procurement_warning]

CallOf(fn, category) == [fn |-> fn, category |-> category]

\* The get_surplus_warehouses calls made while the plan is written
RECURSIVE SurplusCalls(_)
SurplusCalls(rebalance) ==
    IF Len(rebalance) = 0 THEN << >>
    ELSE (IF NeedsSources(rebalance[1])
          THEN << CallOf("get_surplus_warehouses",
                         rebalance[1].product_category) >>
          ELSE << >>)
         \o SurplusCalls(Tail(rebalance))

BlankView ==
    [error |-> "", metrics |-> EmptyMetrics, inventory_status |-> << >>,
     rebalance |-> << >>, balanced |-> FALSE, plan |-> << >>,
     calls |-> << >>]

\* app.py 99: a required dataset is absent
MissingRequired(d) ==
    "warehouse_inventory" \notin DOMAIN d.tables
    \/ "orders" \notin DOMAIN d.tables

\* Mutant of optimize_warehouse_inventory: the metrics are computed before
\* the required datasets are checked.
optimize_warehouse_inventory_MetricsFirst(d) ==
    LET metrics ==
            IF "warehouse_inventory" \in DOMAIN d.tables
            THEN calculate_inventory_metrics(d.tables["warehouse_inventory"])
            ELSE EmptyMetrics
    IN  [BlankView EXCEPT
            !.error = IF MissingRequired(d)
                      THEN "Required datasets not found." ELSE "",
            !.metrics = metrics,
            !.calls = << CallOf("calculate_inventory_metrics", "") >>]

optimize_warehouse_inventory(d) ==
    IF MissingRequired(d)
    THEN [BlankView EXCEPT !.error = "Required datasets not found."]
    ELSE
        LET warehouse_df == d.tables["warehouse_inventory"]
            orders_df == d.tables["orders"]
            metrics == calculate_inventory_metrics(warehouse_df)
            inventory_status == InventoryStatus(orders_df, warehouse_df)
            rebalance == generate_rebalancing_suggestions(inventory_status)
        IN  [error |-> "",
             metrics |-> metrics,
             inventory_status |-> inventory_status,
             rebalance |-> rebalance,
             balanced |-> Len(rebalance) = 0,
             plan |-> [k \in DOMAIN rebalance |->
                          PlanEntry(warehouse_df, rebalance[k])],
             calls |-> << CallOf("calculate_inventory_metrics", ""),
                          CallOf("generate_rebalancing_suggestions", "") >>
                       \o SurplusCalls(rebalance)]

\* app.py 178-214: one run of the page
main(d) ==
    IF d.is_none
    THEN [BlankView EXCEPT !.error = "Failed to load data."]
    ELSE optimize_warehouse_inventory(d)

BlankCall ==
    [fn |-> "none", category |-> "", metrics |-> EmptyMetrics,
     rows |-> << >>, lines |-> << >>]

----------------------------------------------------------------------------
(* The session: every user interaction runs main() *)

Init ==
    /\ files \in [Datasets -> FileStates]
    /\ orders_csv \in SessionOrders
    /\ warehouse_csv \in SessionWarehouses
    /\ data = None
    /\ loads = 0
    /\ view = BlankView
    /\ call = BlankCall

Main ==
    /\ loads < MaxRequests
    /\ loads' = loads + 1
    /\ data' = load_data(files, orders_csv, warehouse_csv)
    /\ view' = main(data')
    /\ UNCHANGED <<files, orders_csv, warehouse_csv, call>>

Next == Main

Spec == Init /\ [][Next]_vars

----------------------------------------------------------------------------
(* The analysis of one loaded pair of tables *)

AllOk == [n \in Datasets |-> "ok"]

InitAnalysis ==
    /\ files = AllOk
    /\ orders_csv \in SeqsUpTo(OrderRows, MaxOrders)
    /\ warehouse_csv \in SeqsUpTo(AnalysisRows, MaxRows)
    /\ data = load_data(files, orders_csv, warehouse_csv)
    /\ loads = 1
    /\ view = BlankView
    /\ call = BlankCall

Optimize ==
    /\ view = BlankView
    /\ view' = optimize_warehouse_inventory(data)
    /\ UNCHANGED <<files, orders_csv, warehouse_csv, data, loads, call>>

NextAnalysis == Optimize

SpecAnalysis == InitAnalysis /\ [][NextAnalysis]_vars

----------------------------------------------------------------------------
(* Direct calls of the query functions on a warehouse table *)

QueryCategories == Categories \cup {"Toys"}

InitQuery ==
    /\ files = AllOk
    /\ orders_csv = << >>
    /\ warehouse_csv \in SeqsUpTo(QueryRows, MaxRows)
    /\ data = load_data(files, orders_csv, warehouse_csv)
    /\ loads = 1
    /\ view = BlankView
    /\ call = BlankCall

CallMetrics ==
    /\ call.fn = "none"
    /\ call' = [BlankCall EXCEPT
                   !.fn = "calculate_inventory_metrics",
                   !.metrics =
                       calculate_inventory_metrics(
                           data.tables["warehouse_inventory"])]
    /\ UNCHANGED <<files, orders_csv, warehouse_csv, data, loads, view>>

CallSurplus ==
    /\ call.fn = "none"
    /\ \E category \in QueryCategories :
          LET src == SourceWarehouses(data.tables["warehouse_inventory"],
                                      category)
          IN  call' = [BlankCall EXCEPT
                          !.fn = "get_surplus_warehouses",
                          !.category = category,
                          !.rows = src.rows,
                          !.lines = src.lines]
    /\ UNCHANGED <<files, orders_csv, warehouse_csv, data, loads, view>>

NextQuery == CallMetrics \/ CallSurplus

SpecQuery == InitQuery /\ [][NextQuery]_vars

----------------------------------------------------------------------------
(* Properties of the rebalancing analysis (SpecAnalysis) *)

Analysed == Len(view.calls) > 0

\* The sum of a column over a set of row indices, one index at a time
RECURSIVE SumOver(_, _, _)
SumOver(df, idx, col) ==
    IF idx = {} THEN 0
    ELSE LET i == CHOOSE j \in idx : TRUE
         IN  df[i][col] + SumOver(df, idx \ {i}, col)

Flagged(status) ==
    {i \in DOMAIN status :
        status[i].variance > REBALANCE_THRESHOLD
        \/ status[i].variance < -REBALANCE_THRESHOLD}

C2_ActionAndQuantity ==
    Analysed =>
        /\ \A j \in DOMAIN view.rebalance :
              LET row == view.rebalance[j]
              IN  /\ (row.action = "Increase Stock") <=> (row.variance < 0)
                  /\ (row.action = "Reduce Stock") <=> (row.variance > 0)
                  /\ row.variance # 0
                  /\ row.quantity \in Nat
                  /\ row.quantity = row.variance
                     \/ row.quantity = -row.variance
        /\ DOMAIN view.plan = DOMAIN view.rebalance
        /\ \A j \in DOMAIN view.plan :
              /\ view.plan[j].category = view.rebalance[j].product_category
              /\ view.plan[j].action = view.rebalance[j].action
              /\ view.plan[j].quantity = view.rebalance[j].quantity

\* C2 witness: one analysis suggests both an increase and a reduction.
C2_Witness ==
    /\ Analysed
    /\ \E j \in DOMAIN view.rebalance :
          view.rebalance[j].action = "Increase Stock"
    /\ \E j \in DOMAIN view.rebalance :
          view.rebalance[j].action = "Reduce Stock"

OrdersOf(c) ==
    {i \in DOMAIN orders_csv : orders_csv[i].product_category = c}

StockRowsOf(c) ==
    {i \in DOMAIN warehouse_csv : warehouse_csv[i].product_category = c}

\* C3: the Inventory Status table has exactly one row per category that
\* appears in the orders or in the warehouse inventory and no other row;
\* its demand is the number of orders of the category (0 without orders),
\* its stock the sum over the category's warehouse rows (0 without rows),
\* and its variance is stock - demand.
C3_OuterJoin ==
    Analysed =>
        LET status == view.inventory_status
        IN  /\ \A k \in DOMAIN status :
                  status[k].product_category \in Categories
            /\ \A c \in Categories :
                  LET rows == {k \in DOMAIN status :
                                  status[k].product_category = c}
                  IN  IF OrdersOf(c) = {} /\ StockRowsOf(c) = {}
                      THEN rows = {}
                      ELSE /\ Cardinality(rows) = 1
                           /\ \A k \in rows :
                                 /\ status[k].demand
                                        = Cardinality(OrdersOf(c))
                                 /\ status[k].current_stock_units
                                        = SumOver(warehouse_csv,
                                                  StockRowsOf(c),
                                                  "current_stock_units")
                                 /\ status[k].variance
                                        = status[k].current_stock_units
                                          - status[k].demand

\* C3 witness: one category has orders and no stock, another has stock in
\* two warehouse rows and no orders; both get a row.
C3_Witness ==
    /\ Analysed
    /\ \E c, e \in Categories :
          /\ OrdersOf(c) # {} /\ StockRowsOf(c) = {}
          /\ OrdersOf(e) = {} /\ Cardinality(StockRowsOf(e)) = 2
    /\ Len(view.inventory_status) = 2

SurplusCallCategories(calls) ==
    LET hits == SelectSeq(calls,
                          LAMBDA x : x.fn = "get_surplus_warehouses")
    IN  [k \in DOMAIN hits |-> hits[k].category]

CategoriesOf(rows) == [k \in DOMAIN rows |-> rows[k].product_category]

\* C10 as claimed: the Surplus Locator is invoked once for every row of the
\* suggestions, whatever its action, and for no other category.
C10_EveryFlaggedCategory ==
    Analysed =>
        SurplusCallCategories(view.calls) = CategoriesOf(view.rebalance)

\* C10: after the suggestions are produced, the Surplus Locator is invoked
\* once for each suggestion row whose variance is negative (action Increase
\* Stock), in table order, and for no other category; a Reduce Stock row
\* triggers no lookup.
C10_IncreaseRowsOnly ==
    Analysed =>
        /\ SurplusCallCategories(view.calls)
               = CategoriesOf(SelectSeq(view.rebalance,
                                        LAMBDA row : row.variance < 0))
        /\ \A k \in DOMAIN view.calls :
              view.calls[k].fn = "get_surplus_warehouses"
              => \E g \in 1..(k - 1) :
                    view.calls[g].fn = "generate_rebalancing_suggestions"
        /\ \A j \in DOMAIN view.plan :
              view.plan[j].searched <=> (view.rebalance[j].variance < 0)

\* C10 witness: an analysis with an Increase Stock row and a Reduce Stock
\* row, and a single lookup.
C10_Witness ==
    /\ Analysed
    /\ Len(view.rebalance) = 2
    /\ \E j \in DOMAIN view.rebalance : view.rebalance[j].variance < 0
    /\ \E j \in DOMAIN view.rebalance : view.rebalance[j].variance > 0
    /\ Len(SurplusCallCategories(view.calls)) = 1

----------------------------------------------------------------------------
(* Properties of the direct calls (SpecQuery) *)

Donors(category) ==
    {i \in DOMAIN warehouse_csv :
        /\ warehouse_csv[i].product_category = category
        /\ 2 * warehouse_csv[i].current_stock_units
               > 3 * warehouse_csv[i].reorder_level}

\* C4: get_surplus_warehouses returns exactly the rows of the requested
\* category whose stock is strictly greater than 1.5 x the reorder level,
\* each once and in table order: a row at exactly 1.5 x is excluded, no row
\* of another category is returned, and with no such row the result is
\* empty.
C4_SurplusRows ==
    call.fn = "get_surplus_warehouses" =>
        /\ Len(call.rows) = Cardinality(Donors(call.category))
        /\ \A j \in DOMAIN call.rows :
              \E i \in Donors(call.category) :
                  /\ Cardinality({i2 \in Donors(call.category) : i2 < i})
                         = j - 1
                  /\ call.rows[j] = warehouse_csv[i]
        /\ \A j \in DOMAIN call.rows :
              /\ call.rows[j].product_category = call.category
              /\ 2 * call.rows[j].current_stock_units
                     # 3 * call.rows[j].reorder_level

\* C4 witness: the table holds a row of the category at exactly 1.5 x its
\* reorder level and a row above it; only the second is returned.
C4_Witness ==
    /\ call.fn = "get_surplus_warehouses"
    /\ Len(call.rows) = 1
    /\ call.rows[1].reorder_level > 0
    /\ \E i \in DOMAIN warehouse_csv :
          /\ warehouse_csv[i].product_category = call.category
          /\ warehouse_csv[i].reorder_level > 0
          /\ 2 * warehouse_csv[i].current_stock_units
                 = 3 * warehouse_csv[i].reorder_level

\* C5: for every returned donor row the amount shown is stock - reorder
\* level, it is strictly positive, and a donor giving all of it keeps
\* exactly its reorder level.
C5_DonorAmount ==
    call.fn = "get_surplus_warehouses" =>
        /\ DOMAIN call.lines = DOMAIN call.rows
        /\ \A j \in DOMAIN call.rows :
              /\ call.lines[j].location = call.rows[j].location
              /\ call.lines[j].available
                     = call.rows[j].current_stock_units
                       - call.rows[j].reorder_level
              /\ call.lines[j].available > 0
              /\ call.rows[j].current_stock_units - call.lines[j].available
                     = call.rows[j].reorder_level

\* C5 witness: a donor with a positive reorder level, whose amount is
\* therefore less than its stock.
C5_Witness ==
    /\ call.fn = "get_surplus_warehouses"
    /\ \E j \in DOMAIN call.rows :
          /\ call.rows[j].reorder_level > 0
          /\ call.lines[j].available < call.rows[j].current_stock_units

AllRows == DOMAIN warehouse_csv

\* C6: calculate_inventory_metrics returns the empty result for a table
\* without rows; otherwise total_inventory is the sum of the stock over all
\* rows, total_products and total_warehouses count the distinct categories
\* and locations, and low_stock_items counts the rows whose stock is
\* strictly below the reorder level.
C6_Metrics ==
    call.fn = "calculate_inventory_metrics" =>
        IF AllRows = {}
        THEN DOMAIN call.metrics = {}
        ELSE /\ DOMAIN call.metrics
                    = {"total_products", "total_warehouses",
                       "total_inventory", "avg_stock_level",
                       "low_stock_items"}
             /\ call.metrics.total_inventory
                    = SumOver(warehouse_csv, AllRows, "current_stock_units")
             /\ call.metrics.total_products
                    = Cardinality({c \in Categories :
                          \E i \in AllRows :
                              warehouse_csv[i].product_category = c})
             /\ call.metrics.total_warehouses
                    = Cardinality({l \in Locations :
                          \E i \in AllRows : warehouse_csv[i].location = l})
             /\ call.metrics.low_stock_items
                    = Cardinality({i \in AllRows :
                          warehouse_csv[i].current_stock_units
                              < warehouse_csv[i].reorder_level})

\* C6 witness: a table with a row below its reorder level and a row exactly
\* at it; one low-stock item is counted.
C6_Witness ==
    /\ call.fn = "calculate_inventory_metrics"
    /\ Len(warehouse_csv) = 2
    /\ \E i \in AllRows :
          /\ warehouse_csv[i].reorder_level > 0
          /\ warehouse_csv[i].current_stock_units
                 = warehouse_csv[i].reorder_level
    /\ call.metrics.low_stock_items = 1
    /\ call.metrics.total_inventory > 0

----------------------------------------------------------------------------
(* Properties of the session (Spec) *)

Existing == {n \in Datasets : files[n] # "missing"}
Unreadable == {n \in Datasets : files[n] = "unreadable"}

NoAnalysis ==
    /\ Len(view.calls) = 0
    /\ DOMAIN view.metrics = {}
    /\ Len(view.inventory_status) = 0
    /\ Len(view.rebalance) = 0
    /\ Len(view.plan) = 0
    /\ ~view.balanced

TotalFailure ==
    /\ data.is_none
    /\ view.error = "Failed to load data."
    /\ NoAnalysis

Kept(names) ==
    /\ ~data.is_none
    /\ DOMAIN data.tables = names
    /\ "orders" \in names => data.tables["orders"] = orders_csv
    /\ "warehouse_inventory" \in names
           => data.tables["warehouse_inventory"] = warehouse_csv
    /\ view.error # "Failed to load data."

\* C7 as claimed: the load keeps every dataset whose file exists and fails
\* only when every dataset is missing.
C7_FailsOnlyIfAllMissing ==
    loads > 0 =>
        IF Existing = {} THEN TotalFailure ELSE Kept(Existing)

\* C7: when every existing file is read without error, the load skips the
\* missing datasets and keeps every dataset whose file exists; the load
\* fails exactly when every dataset is missing or the read of an existing
\* file raises, and then the caller reports total failure and shows no
\* analysis.
C7_SkipsMissingFiles ==
    loads > 0 =>
        IF Existing = {} \/ Unreadable # {}
        THEN TotalFailure
        ELSE Kept(Existing)

\* C7 witness: some files are missing, the others are read and kept.
C7_Witness ==
    /\ loads > 0
    /\ Unreadable = {}
    /\ Existing # {}
    /\ Existing # Datasets
    /\ ~data.is_none
    /\ DOMAIN data.tables = Existing

\* C8: when the loaded data lacks orders or warehouse_inventory, the request
\* shows the blocking message and computes nothing: no metrics, no Inventory
\* Status, no suggestions, no surplus lookup.
C8_MissingDatasetBlocks ==
    (loads > 0 /\ ~data.is_none
       /\ ("orders" \notin DOMAIN data.tables
           \/ "warehouse_inventory" \notin DOMAIN data.tables))
    => /\ view.error = "Required datasets not found."
       /\ NoAnalysis

\* C8 witness: the warehouse inventory was loaded, the orders were not, and
\* the request is blocked.
C8_Witness ==
    /\ loads > 0
    /\ ~data.is_none
    /\ "warehouse_inventory" \in DOMAIN data.tables
    /\ Len(data.tables["warehouse_inventory"]) > 0
    /\ "orders" \notin DOMAIN data.tables
    /\ view.error = "Required datasets not found."

\* C9 as claimed: file loading is performed once in a session, whatever the
\* number of user interactions.
C9_LoadedOnce == loads <= 1

====
